---- MODULE Spec2Model ----
(***************************************************************************)
(* Model of the resume-to-job matching engine of script.js: skill          *)
(* extraction (extractSkills), per-job scoring (calculateMatchScore),      *)
(* matched/missing skill derivation (getMatchedSkills, getMissingSkills)   *)
(* and ranking (analyzeResume), run against the catalog loadData stores    *)
(* in the global jobData.                                                   *)
(*                                                                         *)
(* A JavaScript string is a sequence of one-character strings, so that     *)
(* toLowerCase and includes are computed and not assumed.  A job record    *)
(* is a TLA+ record; a field the JSON record lacks is a field the TLA+     *)
(* record lacks.                                                           *)
(***************************************************************************)
EXTENDS Integers, Sequences, FiniteSets, TLC

(***************************************************************************)
(* Bound of the model: the length of a catalog.                            *)
(***************************************************************************)
MaxJobs == 2

(***************************************************************************)
(* Strings.                                                                *)
(***************************************************************************)
Uppers == <<"A","B","C","D","E","F","G","H","I","J","K","L","M",
            "N","O","P","Q","R","S","T","U","V","W","X","Y","Z">>
Lowers == <<"a","b","c","d","e","f","g","h","i","j","k","l","m",
            "n","o","p","q","r","s","t","u","v","w","x","y","z">>

\* String.prototype.toLowerCase on one character
UpperSet == { Uppers[i] : i \in 1..Len(Uppers) }

LowerOf == [c \in UpperSet |-> Lowers[CHOOSE i \in 1..Len(Uppers) : Uppers[i] = c]]

LowerChar(c) == IF c \in UpperSet THEN LowerOf[c] ELSE c

\* String.prototype.toLowerCase
toLowerCase(s) == << >> \o [i \in 1..Len(s) |-> LowerChar(s[i])]

\* String.prototype.includes: t occurs in s as a contiguous substring
includes(s, t) ==
    \E k \in 0..(Len(s) - Len(t)) :
        \A i \in 1..Len(t) : s[k + i] = t[i]

(***************************************************************************)
(* The skill vocabulary of extractSkills.                                  *)
(***************************************************************************)
commonSkills == <<
      <<"P","y","t","h","o","n">>,
      <<"J","a","v","a","S","c","r","i","p","t">>,
      <<"J","a","v","a">>,
      <<"C","+","+">>,
      <<"C","#">>,
      <<"P","H","P">>,
      <<"R","u","b","y">>,
      <<"G","o">>,
      <<"R","u","s","t">>,
      <<"R","e","a","c","t">>,
      <<"A","n","g","u","l","a","r">>,
      <<"V","u","e">>,
      <<"N","o","d","e",".","j","s">>,
      <<"E","x","p","r","e","s","s">>,
      <<"D","j","a","n","g","o">>,
      <<"F","l","a","s","k">>,
      <<"F","a","s","t","A","P","I">>,
      <<"S","Q","L">>,
      <<"P","o","s","t","g","r","e","S","Q","L">>,
      <<"M","y","S","Q","L">>,
      <<"M","o","n","g","o","D","B">>,
      <<"R","e","d","i","s">>,
      <<"D","o","c","k","e","r">>,
      <<"K","u","b","e","r","n","e","t","e","s">>,
      <<"A","W","S">>,
      <<"A","z","u","r","e">>,
      <<"G","C","P">>,
      <<"G","i","t">>,
      <<"G","i","t","H","u","b">>,
      <<"C","I","/","C","D">>,
      <<"J","e","n","k","i","n","s">>,
      <<"T","r","a","v","i","s">>,
      <<"M","a","c","h","i","n","e"," ","L","e","a","r","n","i","n","g">>,
      <<"A","I">>,
      <<"T","e","n","s","o","r","F","l","o","w">>,
      <<"P","y","T","o","r","c","h">>,
      <<"S","c","i","k","i","t","-","l","e","a","r","n">>,
      <<"D","a","t","a"," ","S","c","i","e","n","c","e">>,
      <<"P","a","n","d","a","s">>,
      <<"N","u","m","P","y">>,
      <<"M","a","t","p","l","o","t","l","i","b">>,
      <<"S","e","a","b","o","r","n">>,
      <<"H","T","M","L">>,
      <<"C","S","S">>,
      <<"S","A","S","S">>,
      <<"B","o","o","t","s","t","r","a","p">>,
      <<"T","a","i","l","w","i","n","d">>,
      <<"T","y","p","e","S","c","r","i","p","t">>,
      <<"R","E","S","T"," ","A","P","I">>,
      <<"G","r","a","p","h","Q","L">>,
      <<"M","i","c","r","o","s","e","r","v","i","c","e","s">>,
      <<"A","g","i","l","e">>,
      <<"S","c","r","u","m">>
    >>

\* extractSkills with the operands of includes exchanged
extractSkillsSwapped(resumeContent) ==
    LET resumeLower == toLowerCase(resumeContent)
    IN  SelectSeq(commonSkills,
                  LAMBDA skill : includes(toLowerCase(skill), resumeLower))

\* extractSkills comparing the text and the names as written
extractSkillsCaseSensitive(resumeContent) ==
    SelectSeq(commonSkills, LAMBDA skill : includes(resumeContent, skill))

\* extractSkills: the vocabulary skills whose lower-cased name occurs in
\* the lower-cased text, in vocabulary order
extractSkills(resumeContent) ==
    LET resumeLower == toLowerCase(resumeContent)
    IN  SelectSeq(commonSkills,
                  LAMBDA skill : includes(resumeLower, toLowerCase(skill)))

(***************************************************************************)
(* The skill names of the job records and the resume texts of the model.   *)
(* Against the vocabulary, "ReactJS" contains the resume skill "React",    *)
(* "node" is contained in the resume skill "Node.js" and differs from it   *)
(* in case, and "daily" contains "AI".                                     *)
(***************************************************************************)
PY == <<"P","y","t","h","o","n">>
RJ == <<"R","e","a","c","t","J","S">>
AW == <<"A","W","S">>
ND == <<"n","o","d","e">>

TEmpty == << >>
TDaily == <<"I"," ","u","s","e"," ","P","y","t","h","o","n"," ","a","n","d"," ","R","e","a","c","t"," ","d","a","i","l","y">>
TNode == <<"N","o","d","e",".","j","s">>
TAws == <<"A","W","S"," ","a","n","d"," ","n","o","d","e",".","j","s">>
TGoogle == <<"G","o","o","g","l","e"," ","J","a","v","a","S","c","r","i","p","t">>
TStack == <<"R","e","a","c","t",","," ","P","y","t","h","o","n",","," ","N","o","d","e",".","j","s">>
TFull == <<"p","y","t","h","o","n",","," ","R","E","A","C","T",","," ","a","w","s",","," ","N","O","D","E",".","J","S">>

\* The resume texts a user may submit
Texts == {TEmpty, TDaily, TNode, TAws, TGoogle, TStack, TFull}

\* null or undefined in the place of a string: no string of characters
NullText == <<"null">>

\* The arguments a caller may pass to analyzeResume
Arguments == Texts \cup {NullText}

\* extractSkills on null or undefined without the TypeError
extractSkillsThrowsNever(resumeContent) == FALSE

\* resumeContent.toLowerCase() throws a TypeError on null and undefined
extractSkillsThrows(resumeContent) == resumeContent = NullText

\* The calls extractSkills(text) of the arguments of the model, evaluated
\* once
extracted == [text \in Arguments |-> extractSkills(text)]

(***************************************************************************)
(* Scoring.                                                                *)
(***************************************************************************)
\* Math.max
Max(a, b) == IF a >= b THEN a ELSE b

\* Math.round of the non-negative quotient num / den: the nearest integer,
\* a half rounded up.  The quotients of the model are multiples of 1/3 and
\* none lies within 1/6 of a half, so that the double arithmetic of the
\* source rounds as the exact quotient does.
MathRound(num, den) == (2 * num + den) \div (2 * den)

\* job.requirements || [] and job.nice_to_have || []
requirementsOrEmpty(job) ==
    IF "requirements" \in DOMAIN job THEN job.requirements ELSE << >>

niceToHaveOrEmpty(job) ==
    IF "nice_to_have" \in DOMAIN job THEN job.nice_to_have ELSE << >>

\* calculateMatchScore with Math.floor in place of Math.round
calculateMatchScoreFloor(resumeSkills, job) ==
    LET requiredSkills == requirementsOrEmpty(job)
        niceToHaveSkills == niceToHaveOrEmpty(job)
        requiredMatches ==
            Len(SelectSeq(requiredSkills, LAMBDA skill :
                \E r \in 1..Len(resumeSkills) :
                    \/ includes(toLowerCase(resumeSkills[r]), toLowerCase(skill))
                    \/ includes(toLowerCase(skill), toLowerCase(resumeSkills[r]))))
        niceToHaveMatches ==
            Len(SelectSeq(niceToHaveSkills, LAMBDA skill :
                \E r \in 1..Len(resumeSkills) :
                    \/ includes(toLowerCase(resumeSkills[r]), toLowerCase(skill))
                    \/ includes(toLowerCase(skill), toLowerCase(resumeSkills[r]))))
        niceLen == Max(Len(niceToHaveSkills), 1)
    IN  IF Len(requiredSkills) = 0 THEN 0
        ELSE (requiredMatches * 80 * niceLen
                  + niceToHaveMatches * 20 * Len(requiredSkills))
                 \div (Len(requiredSkills) * niceLen)

\* calculateMatchScore scoring a job without required skills by its
\* nice-to-have skills instead of returning 0
calculateMatchScoreNoGuard(resumeSkills, job) ==
    LET requiredSkills == requirementsOrEmpty(job)
        niceToHaveSkills == niceToHaveOrEmpty(job)
        requiredMatches ==
            Len(SelectSeq(requiredSkills, LAMBDA skill :
                \E r \in 1..Len(resumeSkills) :
                    \/ includes(toLowerCase(resumeSkills[r]), toLowerCase(skill))
                    \/ includes(toLowerCase(skill), toLowerCase(resumeSkills[r]))))
        niceToHaveMatches ==
            Len(SelectSeq(niceToHaveSkills, LAMBDA skill :
                \E r \in 1..Len(resumeSkills) :
                    \/ includes(toLowerCase(resumeSkills[r]), toLowerCase(skill))
                    \/ includes(toLowerCase(skill), toLowerCase(resumeSkills[r]))))
        niceLen == Max(Len(niceToHaveSkills), 1)
    IN  IF Len(requiredSkills) = 0 THEN MathRound(niceToHaveMatches * 20, niceLen)
        ELSE MathRound(requiredMatches * 80 * niceLen
                           + niceToHaveMatches * 20 * Len(requiredSkills),
                       Len(requiredSkills) * niceLen)

\* calculateMatchScore with the required skills weighted 100 instead of 80
calculateMatchScoreWeights(resumeSkills, job) ==
    LET requiredSkills == requirementsOrEmpty(job)
        niceToHaveSkills == niceToHaveOrEmpty(job)
        requiredMatches ==
            Len(SelectSeq(requiredSkills, LAMBDA skill :
                \E r \in 1..Len(resumeSkills) :
                    \/ includes(toLowerCase(resumeSkills[r]), toLowerCase(skill))
                    \/ includes(toLowerCase(skill), toLowerCase(resumeSkills[r]))))
        niceToHaveMatches ==
            Len(SelectSeq(niceToHaveSkills, LAMBDA skill :
                \E r \in 1..Len(resumeSkills) :
                    \/ includes(toLowerCase(resumeSkills[r]), toLowerCase(skill))
                    \/ includes(toLowerCase(skill), toLowerCase(resumeSkills[r]))))
        niceLen == Max(Len(niceToHaveSkills), 1)
    IN  IF Len(requiredSkills) = 0 THEN 0
        ELSE MathRound(requiredMatches * 100 * niceLen
                           + niceToHaveMatches * 20 * Len(requiredSkills),
                       Len(requiredSkills) * niceLen)

\* calculateMatchScore: 80% for the required skills matched, 20% for the
\* nice-to-have skills matched; 0 for a job without required skills
calculateMatchScore(resumeSkills, job) ==
    LET requiredSkills == requirementsOrEmpty(job)
        niceToHaveSkills == niceToHaveOrEmpty(job)
        requiredMatches ==
            Len(SelectSeq(requiredSkills, LAMBDA skill :
                \E r \in 1..Len(resumeSkills) :
                    \/ includes(toLowerCase(resumeSkills[r]), toLowerCase(skill))
                    \/ includes(toLowerCase(skill), toLowerCase(resumeSkills[r]))))
        niceToHaveMatches ==
            Len(SelectSeq(niceToHaveSkills, LAMBDA skill :
                \E r \in 1..Len(resumeSkills) :
                    \/ includes(toLowerCase(resumeSkills[r]), toLowerCase(skill))
                    \/ includes(toLowerCase(skill), toLowerCase(resumeSkills[r]))))
        niceLen == Max(Len(niceToHaveSkills), 1)
    IN  IF Len(requiredSkills) = 0 THEN 0
        ELSE MathRound(requiredMatches * 80 * niceLen
                           + niceToHaveMatches * 20 * Len(requiredSkills),
                       Len(requiredSkills) * niceLen)

\* getMatchedSkills testing only whether the resume skill contains the
\* job skill
getMatchedSkillsOneWay(resumeSkills, jobRequirements) ==
    SelectSeq(jobRequirements, LAMBDA skill :
        \E r \in 1..Len(resumeSkills) :
            includes(toLowerCase(resumeSkills[r]), toLowerCase(skill)))

\* getMatchedSkills: the job requirements some resume skill matches
getMatchedSkills(resumeSkills, jobRequirements) ==
    SelectSeq(jobRequirements, LAMBDA skill :
        \E r \in 1..Len(resumeSkills) :
            \/ includes(toLowerCase(resumeSkills[r]), toLowerCase(skill))
            \/ includes(toLowerCase(skill), toLowerCase(resumeSkills[r])))

\* getMissingSkills testing only whether the resume skill contains the
\* job skill
getMissingSkillsOneWay(resumeSkills, jobRequirements) ==
    SelectSeq(jobRequirements, LAMBDA skill :
        ~ \E r \in 1..Len(resumeSkills) :
            includes(toLowerCase(resumeSkills[r]), toLowerCase(skill)))

\* getMissingSkills: the job requirements no resume skill matches
getMissingSkills(resumeSkills, jobRequirements) ==
    SelectSeq(jobRequirements, LAMBDA skill :
        ~ \E r \in 1..Len(resumeSkills) :
            \/ includes(toLowerCase(resumeSkills[r]), toLowerCase(skill))
            \/ includes(toLowerCase(skill), toLowerCase(resumeSkills[r])))

(***************************************************************************)
(* Ranking.                                                                *)
(***************************************************************************)
\* A sort step that puts x before the elements of its own score
InsertByScoreUnstable(sorted, x) ==
    LET before == SelectSeq(sorted, LAMBDA m : m.matchScore > x.matchScore)
        after == SelectSeq(sorted, LAMBDA m : m.matchScore <= x.matchScore)
    IN  before \o <<x>> \o after

\* A sort step of the comparator a.matchScore - b.matchScore
InsertByScoreAscending(sorted, x) ==
    LET before == SelectSeq(sorted, LAMBDA m : m.matchScore <= x.matchScore)
        after == SelectSeq(sorted, LAMBDA m : m.matchScore > x.matchScore)
    IN  before \o <<x>> \o after

\* One step of the stable sort with comparator b.matchScore - a.matchScore:
\* x goes behind every element that does not score less than x
InsertByScore(sorted, x) ==
    LET before == SelectSeq(sorted, LAMBDA m : m.matchScore >= x.matchScore)
        after == SelectSeq(sorted, LAMBDA m : m.matchScore < x.matchScore)
    IN  before \o <<x>> \o after

\* Array.prototype.sort((a, b) => b.matchScore - a.matchScore), which is
\* stable (ECMAScript 2019, 22.1.3.27)
RECURSIVE sortByMatchScore(_)
sortByMatchScore(ms) ==
    IF ms = << >> THEN << >>
    ELSE InsertByScore(sortByMatchScore(SubSeq(ms, 1, Len(ms) - 1)),
                       ms[Len(ms)])

\* The record analyzeResume pushes for one job: the job's own fields and
\* the three computed ones
matchOf(resumeSkills, job) ==
    [matchScore |-> calculateMatchScore(resumeSkills, job),
     matchedSkills |-> getMatchedSkills(resumeSkills, job.requirements),
     missingSkills |-> getMissingSkills(resumeSkills, job.requirements)] @@ job

\* job.requirements is undefined, and getMatchedSkills calls filter on it:
\* a TypeError leaves the forEach loop and analyzeResume
throwsOn(job) == "requirements" \notin DOMAIN job

\* jobData after a call of analyzeResume that sorted jobData itself
jobDataAfterSorted(catalog, ranked) ==
    IF Len(ranked) = Len(catalog)
    THEN [i \in 1..Len(ranked) |->
             [f \in DOMAIN ranked[i] \ {"matchScore", "matchedSkills", "missingSkills"}
                 |-> ranked[i][f]]]
    ELSE catalog

\* jobData after a call of analyzeResume that wrote the computed fields
\* into the job records instead of copies
jobDataAfterAnnotated(catalog, ranked) ==
    IF Len(ranked) = Len(catalog)
    THEN [j \in 1..Len(catalog) |->
             ranked[CHOOSE i \in 1..Len(ranked) : ranked[i].title = catalog[j].title]]
    ELSE catalog

\* jobData after a call of analyzeResume that returned ranked: the loop
\* only reads jobData, the records pushed are copies ({...job}) and sort
\* works on the fresh array matches
jobDataAfter(catalog, ranked) == catalog

\* analyzeResume: threw is TRUE when the call ends in a TypeError, and
\* otherwise value is the ranked list it returns
analyzeResume(catalog, resumeContent) ==
    LET skills == extracted[resumeContent]
    IN  IF extractSkillsThrows(resumeContent)
        THEN [threw |-> TRUE, resumeSkills |-> << >>, value |-> << >>]
        ELSE IF \E j \in 1..Len(catalog) : throwsOn(catalog[j])
             THEN [threw |-> TRUE, resumeSkills |-> skills, value |-> << >>]
             ELSE [threw |-> FALSE, resumeSkills |-> skills,
                   value |-> sortByMatchScore(
                       [j \in 1..Len(catalog) |-> matchOf(skills, catalog[j])])]

(***************************************************************************)
(* The catalogs data/job_descriptions.json may hold.                       *)
(***************************************************************************)
ReqPool == <<PY, RJ, AW>>
NicePool == <<ND>>

\* The prefixes of pool
Prefixes(pool) == { SubSeq(pool, 1, n) : n \in 0..Len(pool) }

\* The skill fields of a job record: each list is present or absent (the
\* record without fields is the empty function)
SkillFields ==
    { [requirements |-> r, nice_to_have |-> n] :
        r \in Prefixes(ReqPool), n \in Prefixes(NicePool) }
    \cup { [requirements |-> r] : r \in Prefixes(ReqPool) }
    \cup { [nice_to_have |-> n] : n \in Prefixes(NicePool) }
    \cup { << >> }

\* The catalogs of at most MaxJobs jobs; the title of a job is its place
\* in the catalog
Catalogs ==
    UNION { { [j \in 1..n |-> [title |-> j] @@ f[j]] : f \in [1..n -> SkillFields] } :
            n \in 0..MaxJobs }


(***************************************************************************)
(* The page: tiers, job cards, filter counts and the resume text area.     *)
(***************************************************************************)
Digits == <<"0","1","2","3","4","5","6","7","8","9">>

\* String(n) of a non-negative integer, as card.dataset.matchScore holds it
RECURSIVE NumberToString(_)
NumberToString(n) ==
    IF n < 10 THEN <<Digits[n + 1]>>
    ELSE NumberToString(n \div 10) \o <<Digits[(n % 10) + 1]>>

\* parseInt of a string: the number its leading digits spell
RECURSIVE parseIntFrom(_, _)
parseIntFrom(s, acc) ==
    IF s # << >> /\ \E d \in 0..9 : Digits[d + 1] = Head(s)
    THEN parseIntFrom(Tail(s), acc * 10 + (CHOOSE d \in 0..9 : Digits[d + 1] = Head(s)))
    ELSE acc

parseInt(s) == parseIntFrom(s, 0)

\* getMatchLevel
getMatchLevel(score) ==
    IF score >= 80 THEN "high"
    ELSE IF score >= 60 THEN "medium"
    ELSE "low"

\* applyFilter with a medium tier closed at 80
filterShowsClosed(filter, score) ==
    CASE filter = "high" -> score >= 80
      [] filter = "medium" -> score >= 60 /\ score <= 80
      [] filter = "low" -> score < 60
      [] OTHER -> TRUE

\* The switch of applyFilter: whether a card of this score is shown
filterShows(filter, score) ==
    CASE filter = "high" -> score >= 80
      [] filter = "medium" -> score >= 60 /\ score < 80
      [] filter = "low" -> score < 60
      [] OTHER -> TRUE

Filters == {"all", "high", "medium", "low"}

\* createJobCard: the score in the data set, the tier as the class of the
\* score badge; a new card has no display style of its own and is shown
createJobCard(match) ==
    [title |-> match.title,
     matchScore |-> NumberToString(match.matchScore),
     level |-> getMatchLevel(match.matchScore),
     shown |-> TRUE]

\* updateFilterCounts: the counts written on the three tier buttons
updateFilterCounts(ranked) ==
    [high |-> Cardinality({ i \in 1..Len(ranked) : ranked[i].matchScore >= 80 }),
     medium |-> Cardinality({ i \in 1..Len(ranked) :
                    ranked[i].matchScore >= 60 /\ ranked[i].matchScore < 80 }),
     low |-> Cardinality({ i \in 1..Len(ranked) : ranked[i].matchScore < 60 })]

\* The job cards of displayResults: the grid is emptied and gets one new
\* card per match
displayedCards(ranked) == [i \in 1..Len(ranked) |-> createJobCard(ranked[i])]

\* The job cards after applyFilter(filter)
filteredCards(shownCards, filter) ==
    [i \in 1..Len(shownCards) |->
        [shownCards[i] EXCEPT
            !.shown = filterShows(filter, parseInt(shownCards[i].matchScore))]]

Whitespace == {" ", "\n", "\t"}

\* String.prototype.trim
RECURSIVE trim(_)
trim(s) ==
    IF s = << >> THEN s
    ELSE IF Head(s) \in Whitespace THEN trim(Tail(s))
    ELSE IF s[Len(s)] \in Whitespace THEN trim(SubSeq(s, 1, Len(s) - 1))
    ELSE s

\* The values of the resume text area
TBlank == <<" ", " ">>
TPadded == <<" ", " ">> \o TStack \o <<"\n">>
TextAreaValues == {TBlank, TPadded, TDaily}

\* A job record with both skill lists
Job(n, r, nth) == [title |-> n, requirements |-> r, nice_to_have |-> nth]

\* The catalogs loadData may fetch: none, one with a job of each tier for
\* some resume, one with a record that lacks its requirements
PageCatalogs ==
    { << >>,
      <<Job(1, <<PY, RJ, AW>>, <<ND>>), Job(2, <<PY, RJ>>, << >>)>>,
      <<Job(1, <<PY>>, <<ND>>), [title |-> 2, nice_to_have |-> <<ND>>]>> }

\* At most MaxPending match requests wait in their processing delay
MaxPending == 2

(***************************************************************************)
(* State.                                                                  *)
(***************************************************************************)
VARIABLES
    jobData,        \* the global catalog
    runContent,     \* the argument resumeContent of the last call of analyzeResume
    runSkills,      \* its local resumeSkills
    runMatches,     \* the list it returned
    runOutcome,     \* "none" before a call, then "returned" or "threw"
    firstRun,       \* the first call of analyzeResume: argument and result,
                    \* and whether a call for another text came after it
    loadState,      \* loadData: "pending", "jobsAssigned", "loaded" or "failed"
    resumeText,     \* the value of the resume text area
    currentFilter,  \* the global currentFilter
    modalVisible,   \* the loading modal is not hidden
    pending,        \* the match requests in their delay, oldest first
    cards,          \* the job cards of the results grid
    resultsHidden,  \* the results section is hidden
    filterCounts,   \* the counts on the tier buttons (0 before any display)
    shownLatest,    \* the request that finished last was the last one started
    event           \* what the last step of the page did

runVars == <<runContent, runSkills, runMatches, runOutcome>>

pageVars == <<loadState, resumeText, currentFilter, modalVisible, pending,
              cards, resultsHidden, filterCounts, shownLatest, event>>

vars == <<jobData, runContent, runSkills, runMatches, runOutcome, firstRun,
          loadState, resumeText, currentFilter, modalVisible, pending,
          cards, resultsHidden, filterCounts, shownLatest, event>>

NoRun == [content |-> << >>, skills |-> << >>, matches |-> << >>,
          outcome |-> "none", between |-> FALSE]

\* The page with no resume text, no request and no result yet
PageAt(loading, last) ==
    /\ loadState = loading
    /\ resumeText = << >>
    /\ currentFilter = "all"
    /\ modalVisible = FALSE
    /\ pending = << >>
    /\ cards = << >>
    /\ resultsHidden = TRUE
    /\ filterCounts = [high |-> 0, medium |-> 0, low |-> 0]
    /\ shownLatest = TRUE
    /\ event = last

\* The page as script.js sets it up, before loadData has ended
InitPage == PageAt("pending", "none")

\* The page when loadData has ended with success
LoadedPage == PageAt("loaded", "loaded")

InitRun ==
    /\ runContent = << >>
    /\ runSkills = << >>
    /\ runMatches = << >>
    /\ runOutcome = "none"
    /\ firstRun = NoRun

(***************************************************************************)
(* The matching engine alone: analyzeResume applied to the arguments of    *)
(* the model, against any catalog of the bounded set.                      *)
(***************************************************************************)
\* jobData = await jobsResponse.json(): any catalog of the bounded set
Init ==
    /\ jobData \in Catalogs
    /\ InitRun
    /\ LoadedPage

\* The call analyzeResume(text) against the catalog in jobData
Call(text) ==
    \E run \in {analyzeResume(jobData, text)} :
        /\ runContent' = text
        /\ runSkills' = run.resumeSkills
        /\ runMatches' = run.value
        /\ runOutcome' = IF run.threw THEN "threw" ELSE "returned"
        /\ jobData' = jobDataAfter(jobData, run.value)

\* One call analyzeResume(text) against the catalog in jobData
AnalyzeResume ==
    /\ \E text \in Arguments : Call(text)
    /\ UNCHANGED firstRun
    /\ UNCHANGED pageVars

Next == AnalyzeResume

Spec == Init /\ [][Next]_vars

(***************************************************************************)
(* Repeated runs: the first call is remembered beside the last one.        *)
(***************************************************************************)
RepeatTexts == {TDaily, TNode, TFull}

\* The catalogs of MaxJobs jobs that have both skill lists
RepeatCatalogs ==
    { c \in Catalogs :
        /\ Len(c) = MaxJobs
        /\ \A j \in 1..Len(c) : {"requirements", "nice_to_have"} \subseteq DOMAIN c[j] }

InitRepeat ==
    /\ jobData \in RepeatCatalogs
    /\ InitRun
    /\ LoadedPage

RepeatRun ==
    /\ \E text \in RepeatTexts : Call(text)
    /\ firstRun' = IF firstRun.outcome = "none"
                   THEN [content |-> runContent', skills |-> runSkills',
                         matches |-> runMatches', outcome |-> runOutcome',
                         between |-> FALSE]
                   ELSE [firstRun EXCEPT
                            !.between = @ \/ runContent' # firstRun.content]
    /\ UNCHANGED pageVars

NextRepeat == RepeatRun

SpecRepeat == InitRepeat /\ [][NextRepeat]_vars

(***************************************************************************)
(* The page: loadData, the resume text area, match requests and filters.   *)
(***************************************************************************)
InitUI ==
    /\ jobData = << >>
    /\ InitRun
    /\ InitPage

\* loadData, a fetch or the json() of the jobs fails: jobData keeps [] and
\* the catch block shows the error notification
LoadDataErrorEarly ==
    /\ loadState = "pending"
    /\ loadState' = "failed"
    /\ event' = "loadError"
    /\ UNCHANGED <<jobData, runVars, firstRun, resumeText, currentFilter,
                   modalVisible, pending, cards, resultsHidden, filterCounts,
                   shownLatest>>

\* loadData, jobData = await jobsResponse.json(): the catalog is assigned
\* and loadData waits for the json() of the resumes
LoadJobs ==
    /\ loadState = "pending"
    /\ \E catalog \in PageCatalogs : jobData' = catalog
    /\ loadState' = "jobsAssigned"
    /\ event' = "jobsAssigned"
    /\ UNCHANGED <<runVars, firstRun, resumeText, currentFilter, modalVisible,
                   pending, cards, resultsHidden, filterCounts, shownLatest>>

\* loadData, resumeData = await resumesResponse.json() succeeds
LoadDataOk ==
    /\ loadState = "jobsAssigned"
    /\ loadState' = "loaded"
    /\ event' = "loaded"
    /\ UNCHANGED <<jobData, runVars, firstRun, resumeText, currentFilter,
                   modalVisible, pending, cards, resultsHidden, filterCounts,
                   shownLatest>>

\* loadData, the json() of the resumes fails after jobData was assigned:
\* the catch block shows the error notification
LoadDataErrorLate ==
    /\ loadState = "jobsAssigned"
    /\ loadState' = "failed"
    /\ event' = "loadError"
    /\ UNCHANGED <<jobData, runVars, firstRun, resumeText, currentFilter,
                   modalVisible, pending, cards, resultsHidden, filterCounts,
                   shownLatest>>

\* The user edits the text area, loads a file or the sample resume
EditResume ==
    /\ \E text \in TextAreaValues : resumeText' = text
    /\ event' = "edited"
    /\ UNCHANGED <<jobData, runVars, firstRun, loadState, currentFilter,
                   modalVisible, pending, cards, resultsHidden, filterCounts,
                   shownLatest>>

\* handleMatchRequest without its check of jobData
requestVerdictUnchecked(resumeContent, catalog) ==
    IF resumeContent = << >> THEN "rejectedEmpty"
    ELSE "accepted"

\* What handleMatchRequest does with the request before its delay
requestVerdict(resumeContent, catalog) ==
    IF resumeContent = << >> THEN "rejectedEmpty"
    ELSE IF Len(catalog) = 0 THEN "rejectedNoData"
    ELSE "accepted"

\* handleMatchRequest up to its await: the two checks, then the modal and
\* the timer of the processing delay
MatchRequestStart ==
    \E verdict \in {requestVerdict(trim(resumeText), jobData)} :
        /\ verdict = "accepted" => Len(pending) < MaxPending
        /\ event' = verdict
        /\ IF verdict = "accepted"
           THEN /\ modalVisible' = TRUE
                /\ pending' = Append([i \in 1..Len(pending) |->
                                         [pending[i] EXCEPT !.latest = FALSE]],
                                     [content |-> trim(resumeText), latest |-> TRUE])
           ELSE UNCHANGED <<modalVisible, pending>>
        /\ UNCHANGED <<jobData, runVars, firstRun, loadState, resumeText,
                       currentFilter, cards, resultsHidden, filterCounts,
                       shownLatest>>

\* A catch block that leaves the loading modal as it is
modalAfterErrorKept(visible) == visible

\* The loading modal after the catch block of handleMatchRequest
modalAfterError(visible) == FALSE

\* handleMatchRequest from the end of its delay: analyzeResume, then
\* displayResults and hideLoadingModal, or the catch block
MatchRequestFinish ==
    /\ pending # << >>
    /\ Call(Head(pending).content)
    /\ pending' = Tail(pending)
    /\ shownLatest' = Head(pending).latest
    /\ IF runOutcome' = "returned"
       THEN /\ cards' = displayedCards(runMatches')
            /\ filterCounts' = updateFilterCounts(runMatches')
            /\ resultsHidden' = FALSE
            /\ modalVisible' = FALSE
            /\ event' = "complete"
       ELSE /\ modalVisible' = modalAfterError(modalVisible)
            /\ event' = "analysisError"
            /\ UNCHANGED <<cards, filterCounts, resultsHidden>>
    /\ UNCHANGED <<firstRun, loadState, resumeText, currentFilter>>

\* applyFilter
ApplyFilter ==
    /\ \E filter \in Filters :
        /\ currentFilter' = filter
        /\ cards' = filteredCards(cards, filter)
    /\ event' = "filtered"
    /\ UNCHANGED <<jobData, runVars, firstRun, loadState, resumeText,
                   modalVisible, pending, resultsHidden, filterCounts,
                   shownLatest>>

NextUI ==
    \/ LoadDataErrorEarly
    \/ LoadJobs
    \/ LoadDataOk
    \/ LoadDataErrorLate
    \/ EditResume
    \/ MatchRequestStart
    \/ MatchRequestFinish
    \/ ApplyFilter

SpecUI == InitUI /\ [][NextUI]_vars

(***************************************************************************)
(* The loading modal: the page once loadData has ended with success, its   *)
(* match requests and their timers.  A timer that was set fires, so the    *)
(* delay of every request ends.                                            *)
(***************************************************************************)
InitModal ==
    /\ jobData \in PageCatalogs
    /\ InitRun
    /\ LoadedPage

NextModal ==
    \/ EditResume
    \/ MatchRequestStart
    \/ MatchRequestFinish

SpecModal == InitModal /\ [][NextModal]_vars /\ WF_vars(MatchRequestFinish)

(***************************************************************************)
(* The statements of the specification, in its own terms: the equivalence  *)
(* test of section 4.2 applied to the resume skills of the last run.       *)
(***************************************************************************)
\* Two skills are equivalent if either is a case-insensitive substring of
\* the other
Equivalent(a, b) ==
    \/ includes(toLowerCase(a), toLowerCase(b))
    \/ includes(toLowerCase(b), toLowerCase(a))

\* The skill passes the test against some resume skill of the last run
Passes(skill) == \E r \in 1..Len(runSkills) : Equivalent(runSkills[r], skill)

\* How many skills of the list pass
CountPassing(list) == Cardinality({ k \in 1..Len(list) : Passes(list[k]) })

Elements(list) == { list[k] : k \in 1..Len(list) }

NiceOf(m) == IF "nice_to_have" \in DOMAIN m THEN m.nice_to_have ELSE << >>

\* s is the integer nearest to num / den, a half rounded up
Nearest(s, num, den) ==
    /\ 2 * den * s - den <= 2 * num
    /\ 2 * num < 2 * den * s + den

Results == { runMatches[i] : i \in 1..Len(runMatches) }

\* C1: the score of a job with at least one required skill is
\* round((matchedRequired / countRequired) * 80
\*       + (matchedNice / max(countNice, 1)) * 20).
C1_ScoreFormula ==
    \A m \in Results :
        Len(m.requirements) >= 1 =>
            LET niceLen == Max(Len(NiceOf(m)), 1)
            IN  Nearest(m.matchScore,
                        CountPassing(m.requirements) * 80 * niceLen
                            + CountPassing(NiceOf(m)) * 20 * Len(m.requirements),
                        Len(m.requirements) * niceLen)

\* Two of three required skills found and no nice-to-have skill: 53
C1_Witness ==
    /\ runContent = TDaily
    /\ \E m \in Results :
        /\ m.requirements = <<PY, RJ, AW>>
        /\ NiceOf(m) = << >>
        /\ CountPassing(m.requirements) = 2
        /\ m.matchScore = 53

\* C2, as stated: the score of a job without required skills is its
\* nice-to-have contribution round((matchedNice / max(countNice, 1)) * 20).
C2_ScoreIsNiceContribution ==
    \A m \in Results :
        Len(m.requirements) = 0 =>
            Nearest(m.matchScore, CountPassing(NiceOf(m)) * 20,
                    Max(Len(NiceOf(m)), 1))

\* C2, amended: the score of a job without required skills is 0, whatever
\* the resume and the nice-to-have skills are.
C2_NoRequirementsScoreZero ==
    \A m \in Results : Len(m.requirements) = 0 => m.matchScore = 0

\* A job without required skills whose nice-to-have skill is in the resume
C2_Witness ==
    \E m \in Results :
        /\ Len(m.requirements) = 0
        /\ CountPassing(NiceOf(m)) = 1
        /\ m.matchScore = 0

\* C3: matchedSkills holds the required and the nice-to-have skills that
\* pass the equivalence test, and nothing else.
C3_MatchedSkillsCoverNice ==
    \A m \in Results :
        Elements(m.matchedSkills) =
            { sk \in Elements(m.requirements) \cup Elements(NiceOf(m)) : Passes(sk) }

\* C4: a job record without a skills field is scored as if the field were
\* empty: every run returns, with one result per job of the catalog.
C4_MalformedRecordTolerated ==
    /\ runOutcome # "threw"
    /\ runOutcome = "returned" => Len(runMatches) = Len(jobData)

\* C5: two results of equal score are ranked in the order of their jobs in
\* the catalog.
C5_StableRanking ==
    \A i, j \in 1..Len(runMatches) :
        (i < j /\ runMatches[i].matchScore = runMatches[j].matchScore)
            => runMatches[i].title < runMatches[j].title

\* Two jobs tie on a score that is not 0
C5_Witness ==
    /\ runOutcome = "returned"
    /\ \E i, j \in 1..Len(runMatches) :
        /\ i < j
        /\ runMatches[i].matchScore = runMatches[j].matchScore
        /\ runMatches[i].matchScore > 0
        /\ runMatches[i].requirements # runMatches[j].requirements

\* C6: the ranked list holds exactly one result per job of the catalog,
\* carrying the fields of that job, and its scores never increase.
C6_RankedPermutation ==
    runOutcome = "returned" =>
        /\ Len(runMatches) = Len(jobData)
        /\ \A j \in 1..Len(jobData) :
            /\ Cardinality({ i \in 1..Len(runMatches) : runMatches[i].title = j }) = 1
            /\ \A i \in 1..Len(runMatches) :
                runMatches[i].title = j =>
                    \A f \in DOMAIN jobData[j] : runMatches[i][f] = jobData[j][f]
        /\ \A i \in 1..(Len(runMatches) - 1) :
            runMatches[i].matchScore >= runMatches[i + 1].matchScore

\* The second job of the catalog outscores the first and is ranked first
C6_Witness ==
    /\ runOutcome = "returned"
    /\ Len(runMatches) >= 2
    /\ runMatches[1].title = 2
    /\ runMatches[2].title = 1
    /\ runMatches[1].matchScore > runMatches[2].matchScore

\* C7: every score is an integer from 0 to 100.
C7_ScoreRange ==
    \A m \in Results : m.matchScore \in 0..100

\* A job with all its required and nice-to-have skills in the resume
C7_Witness ==
    \E m \in Results :
        /\ m.matchScore = 100
        /\ Len(m.requirements) = Len(ReqPool)
        /\ Len(NiceOf(m)) = Len(NicePool)

\* C8: missingSkills is the sequence of the required skills that fail the
\* test; it holds no nice-to-have skill, and every required skill is in
\* exactly one of matchedSkills and missingSkills.
C8_MissingSkills ==
    \A m \in Results :
        /\ m.missingSkills = SelectSeq(m.requirements, LAMBDA sk : ~ Passes(sk))
        /\ Elements(m.missingSkills) \cap Elements(NiceOf(m)) = {}
        /\ \A sk \in Elements(m.requirements) :
            (sk \in Elements(m.matchedSkills)) # (sk \in Elements(m.missingSkills))

\* One required skill missing, two matched, and a nice-to-have skill that
\* is not in the resume either
C8_Witness ==
    \E m \in Results :
        /\ m.missingSkills = <<AW>>
        /\ m.matchedSkills = <<PY, RJ>>
        /\ NiceOf(m) = <<ND>>
        /\ ~ Passes(ND)

\* C9: a job skill and a resume skill match whenever either is a
\* case-insensitive substring of the other, in both directions, and one
\* test decides the score, matchedSkills and missingSkills: the skills
\* listed as matched are those that pass, they are the ones the score
\* counts, and none of them is listed as missing.
C9_OneSymmetricTest ==
    \A m \in Results :
        /\ m.matchedSkills = SelectSeq(m.requirements, LAMBDA sk : Passes(sk))
        /\ \A sk \in Elements(m.requirements) \cup Elements(NiceOf(m)) :
            \A r \in 1..Len(runSkills) :
                /\ (getMatchedSkills(<<runSkills[r]>>, <<sk>>) = <<sk>>)
                       <=> Equivalent(sk, runSkills[r])
                /\ (getMatchedSkills(<<runSkills[r]>>, <<sk>>) = <<sk>>)
                       <=> (getMatchedSkills(<<sk>>, <<runSkills[r]>>) = <<runSkills[r]>>)
        /\ Elements(m.matchedSkills) \cap Elements(m.missingSkills) = {}
        /\ Len(m.requirements) >= 1 =>
            LET niceLen == Max(Len(NiceOf(m)), 1)
                countRequired == Len(m.matchedSkills) + Len(m.missingSkills)
            IN  Nearest(m.matchScore,
                        Len(m.matchedSkills) * 80 * niceLen
                            + CountPassing(NiceOf(m)) * 20 * countRequired,
                        countRequired * niceLen)

\* "ReactJS" contains the resume skill "React", and "node" is contained in
\* the resume skill "Node.js" up to case: both count
C9_Witness ==
    \E m \in Results :
        /\ RJ \in Elements(m.matchedSkills)
        /\ ND \in Elements(NiceOf(m))
        /\ \E r \in 1..Len(runSkills) :
            /\ includes(toLowerCase(runSkills[r]), toLowerCase(ND))
            /\ ~ includes(runSkills[r], ND)
        /\ m.matchScore = 100

\* C10: with an empty resume text no skill is extracted, and every result
\* has score 0, no matched skill and all the required skills missing.
C10_EmptyResume ==
    (runOutcome # "none" /\ runContent = << >>) =>
        /\ runSkills = << >>
        /\ \A m \in Results :
            /\ m.matchScore = 0
            /\ m.matchedSkills = << >>
            /\ m.missingSkills = m.requirements

\* An empty resume against a job with required and nice-to-have skills
C10_Witness ==
    /\ runOutcome = "returned"
    /\ runContent = << >>
    /\ \E m \in Results : Len(m.requirements) = Len(ReqPool) /\ NiceOf(m) = <<ND>>

\* C11: for a null or undefined resume text, extraction and matching
\* signal an error to the caller at once: no skill list and no match list
\* is produced and nothing is rendered.
C11_NullTextThrows ==
    (runOutcome # "none" /\ runContent = NullText) =>
        /\ runOutcome = "threw"
        /\ runSkills = << >>
        /\ runMatches = << >>
        /\ cards = << >>
        /\ resultsHidden

\* null against a full catalog of jobs that have both skill lists
C11_Witness ==
    /\ runContent = NullText
    /\ runOutcome = "threw"
    /\ Len(jobData) = MaxJobs
    /\ \A j \in 1..Len(jobData) :
        /\ ~ throwsOn(jobData[j])
        /\ jobData[j].requirements # << >>

\* C12: matching against an empty catalog returns an empty list and no
\* error is raised or reported for an empty catalog.
C12_EmptyCatalogNoError ==
    /\ (runOutcome # "none" /\ jobData = << >>) =>
            (runOutcome = "returned" /\ runMatches = << >>)
    /\ (loadState = "loaded" /\ jobData = << >>) => event # "rejectedNoData"

Tiers == {"high", "medium", "low"}

TierOf(score) ==
    IF score >= 80 THEN "high" ELSE IF score >= 60 THEN "medium" ELSE "low"

\* getMatchLevel, the filters and the counts on one score
TiersAgree ==
    \A score \in 0..100 :
        /\ getMatchLevel(score) = TierOf(score)
        /\ parseInt(NumberToString(score)) = score
        /\ \A tier \in Tiers :
            /\ filterShows(tier, score) <=> tier = TierOf(score)
            /\ updateFilterCounts(<<[matchScore |-> score]>>)[tier]
                   = IF tier = TierOf(score) THEN 1 ELSE 0
        /\ filterShows("all", score)

CardsOfTier(tier) ==
    { i \in 1..Len(cards) : filterShows(tier, parseInt(cards[i].matchScore)) }

\* C13: every score of 0..100 is in exactly one tier, the same for
\* getMatchLevel, for the filter and for the counts (high from 80, medium
\* from 60 to 79, low below 60); the three counts sum to the number of
\* results and the three filters partition the result list.
C13_TiersPartition ==
    /\ TiersAgree
    /\ filterCounts.high + filterCounts.medium + filterCounts.low = Len(cards)
    /\ \A tier \in Tiers : filterCounts[tier] = Cardinality(CardsOfTier(tier))
    /\ \A i \in 1..Len(cards) :
        /\ Cardinality({ tier \in Tiers : i \in CardsOfTier(tier) }) = 1
        /\ i \in CardsOfTier(cards[i].level)

\* A medium and a high result under the medium filter: one shown, one not
C13_Witness ==
    /\ event = "filtered"
    /\ currentFilter = "medium"
    /\ filterCounts = [high |-> 1, medium |-> 1, low |-> 0]
    /\ \E i, j \in 1..Len(cards) :
        /\ cards[i].level = "medium" /\ cards[i].shown
        /\ cards[j].level = "high" /\ ~ cards[j].shown
        /\ cards[j].matchScore = <<"8", "0">>

\* C14: a run for the text of the first run returns the skills and the
\* ranked list of the first run, whatever runs happened in between.
C14_RepeatedRunsAgree ==
    (firstRun.outcome # "none" /\ runContent = firstRun.content) =>
        /\ runSkills = firstRun.skills
        /\ runMatches = firstRun.matches
        /\ runOutcome = firstRun.outcome

\* The text of the first run again, after a run for another text that
\* ranked the two jobs the other way round
C14_Witness ==
    /\ firstRun.outcome = "returned"
    /\ firstRun.between
    /\ runContent = firstRun.content
    /\ Len(runMatches) = 2
    /\ runMatches[1].title = 1
    /\ runMatches[1].matchScore = runMatches[2].matchScore
    /\ \E text \in RepeatTexts :
        \E other \in {analyzeResume(jobData, text)} :
            other.value[1].title = 2

\* The vocabulary skills whose lower-cased name occurs in the lower-cased text
Occurring ==
    [text \in Texts |->
        { k \in 1..Len(commonSkills) :
            includes(toLowerCase(text), toLowerCase(commonSkills[k])) }]

\* C15: extractSkills returns exactly the vocabulary skills whose
\* lower-cased name is a substring of the lower-cased text, each once and
\* as the vocabulary spells it, with no test of word boundaries.
C15_ExactSubstringSkills ==
    (runOutcome # "none" /\ runContent \in Texts) =>
        /\ \A k \in 1..Len(commonSkills) :
            (k \in Occurring[runContent])
                <=> (\E i \in 1..Len(runSkills) : runSkills[i] = commonSkills[k])
        /\ Len(runSkills) = Cardinality(Occurring[runContent])
        /\ \A i \in 1..Len(runSkills) :
            \E k \in 1..Len(commonSkills) : runSkills[i] = commonSkills[k]

\* "Google JavaScript": Go, Java and JavaScript are reported
C15_Witness ==
    /\ runOutcome # "none"
    /\ runContent = TGoogle
    /\ Elements(runSkills) = {<<"G","o">>, <<"J","a","v","a">>,
                              <<"J","a","v","a","S","c","r","i","p","t">>}

AddedFields == {"matchScore", "matchedSkills", "missingSkills"}

\* C16: a call of analyzeResume leaves jobData as it was, the same records
\* in the same order, none with a matchScore, matchedSkills or
\* missingSkills field.
C16_CatalogUnchanged ==
    [][/\ jobData' = jobData
       /\ \A j \in 1..Len(jobData') : DOMAIN jobData'[j] \cap AddedFields = {}]_vars

\* The second job ranked first while jobData keeps its order
C16_Witness ==
    /\ runOutcome = "returned"
    /\ Len(runMatches) = 2
    /\ runMatches[1].title = 2
    /\ runMatches[1].matchScore > runMatches[2].matchScore
    /\ jobData[1].title = 1
    /\ jobData[2].title = 2
    /\ DOMAIN jobData[1] \cap AddedFields = {}

\* C17: the job cards shown are exactly those whose tier matches the
\* current filter, all of them under the filter 'all'.
C17_ShownMatchFilter ==
    \A i \in 1..Len(cards) :
        cards[i].shown <=> filterShows(currentFilter, parseInt(cards[i].matchScore))

Rejections == {"rejectedEmpty", "rejectedNoData"}

\* The step rejects the request: the error notification, the modal as it
\* was, the results and the pending requests untouched, no analysis
RejectedStep ==
    /\ event' \in Rejections
    /\ modalVisible' = modalVisible
    /\ UNCHANGED <<jobData, runVars, pending, cards, resultsHidden, filterCounts>>

\* C18 as stated: a match request is rejected when the trimmed text is
\* empty or loadData has not ended with success (still in flight, or failed).
C18_RejectedUnlessLoaded ==
    [][(MatchRequestStart /\ (trim(resumeText) = << >> \/ loadState # "loaded"))
           => RejectedStep]_vars

\* C18: a match request is rejected before any analysis exactly when the
\* trimmed text is empty or jobData is empty (as it is until loadData has
\* assigned a non-empty catalog): the error notification is raised, the
\* modal is not shown and the results are left unchanged.
C18_RejectedIffEmpty ==
    [][MatchRequestStart =>
          IF trim(resumeText) = << >> \/ jobData = << >>
          THEN RejectedStep
          ELSE event' = "accepted"]_vars

\* A request with blank text rejected while results are on display
C18_Witness ==
    /\ event = "rejectedEmpty"
    /\ resumeText = TBlank
    /\ cards # << >>
    /\ ~ modalVisible

\* C19: every request that shows the loading modal hides it again, when
\* the analysis returns and when it throws; at the end of a request the
\* modal is hidden.
C19_ModalHidden ==
    /\ modalVisible ~> ~ modalVisible
    /\ [][MatchRequestFinish => ~ modalVisible']_vars

\* The analysis threw and the modal is hidden
C19_Witness ==
    /\ event = "analysisError"
    /\ runOutcome = "threw"
    /\ ~ modalVisible

\* C20: with overlapping requests the modal stays visible while a request
\* is pending, and the results displayed at the end are those of the
\* request started last.
C20_OverlappingRequests ==
    /\ pending # << >> => modalVisible
    /\ (pending = << >> /\ event = "complete") => shownLatest

====
